---- MODULE Spec2Model ----
(***************************************************************************)
(* MC_Anamorphosis: a model of the two subsystems of the repository.       *)
(*                                                                         *)
(*  - send_commands.py: RCONConnectionPool and send_commands, the worker   *)
(*    threads of the ThreadPoolExecutor interleaved step by step           *)
(*    (specifications Spec and FairSpec).                                  *)
(*  - image_processing.py: the per-pixel loop of                           *)
(*    process_image_depthmap_and_get_commands with find_closest_block,     *)
(*    the camera frame and the projection (specification SpecImg).         *)
(*                                                                         *)
(* Floating point values are modelled as exact rationals over a fixed      *)
(* denominator; the only float comparison a claim depends on               *)
(* (distance >= far_threshold at depth 132) is exact in the floats too.    *)
(***************************************************************************)
EXTENDS Integers, Sequences, FiniteSets

VARIABLES
    \* ---- send_commands.py ----
    commands,      \* the list passed to send_commands (commands named 1..N)
    pool_size,     \* the pool_size argument
    pc,            \* position of the calling thread inside send_commands
    outcome,       \* how the call ended: "running" until it ends
    idx,           \* loop counter of the calling thread (range / map / results)
    pool,          \* RCONConnectionPool.pool, a FIFO queue.Queue of connections
    conn_state,    \* per connection: "absent", "connected", "disconnected"
    disconnects,   \* per connection: number of disconnect() calls
    max_workers,   \* ThreadPoolExecutor._max_workers
    num_threads,   \* number of worker threads the executor has started
    work_queue,    \* ThreadPoolExecutor._work_queue (indices of commands)
    fut,           \* per command: state of its Future
    exc,           \* TRUE while an exception propagates in the calling thread
    wpc,           \* per worker thread: position inside send_block_command
    wtask,         \* per worker thread: the command it runs (0: none)
    conn,          \* per worker thread: local variable conn (0: none)
    wexc,          \* per worker thread: conn.command raised
    sent,          \* per command: number of conn.command(cmd) invocations
    \* ---- image_processing.py ----
    block_rgb_map, \* the palette, in iteration order: sequence of RGB triples
    player_info,   \* [pos |-> position, rot |-> <<yaw, pitch>> in degrees]
    width, height, \* im.size of the resized image (output_width, output_height)
    row, col,      \* the pixel loop's position
    ipc,           \* "loop" while pixels remain, "done" after the loop
    pixel,         \* the RGBA pixel processed last (<<>> before the first)
    pcol, prow,    \* column and row of the pixel processed last
    block_id,      \* the block id chosen for the pixel processed last
    block_pos,     \* its projected position (rationals over Q)
    emitted        \* the commands that pixel's iteration appended to the list

dvars == <<commands, pool_size, pc, outcome, idx, pool, conn_state, disconnects,
           max_workers, num_threads, work_queue, fut, exc, wpc, wtask, conn,
           wexc, sent>>
ivars == <<block_rgb_map, player_info, width, height, row, col, ipc, pixel,
           pcol, prow, block_id, block_pos, emitted>>
vars == <<dvars, ivars>>

\* ---------------------------------------------------------------- bounds
MaxPool == 2
MaxCommands == 3

ConnIds == 1..MaxPool
\* one thread id more than any legal pool size, so that an executor that
\* starts too many threads has a thread to start
WorkerIds == 1..(MaxPool + 1)
CmdIds == 1..MaxCommands

Min(a, b) == IF a < b THEN a ELSE b

\* the counters of calls saturate here (one more than any count the code reaches)
MaxCount == 2

\* a dict key of the palette (the i-th in iteration order), Python's None
\* and the literal block id of line 230
Key(i) == <<"block", i>>
None == <<"None">>
Stone == <<"minecraft:stone">>

\* ------------------------------------------------------ send_commands.py

\* queue.Queue.get: the head of the FIFO and the queue without it
QueueGet(q) == [item |-> Head(q), rest |-> Tail(q)]

\* queue.Queue.put
QueuePut(q, x) == Append(q, x)

\* faulty variant of PoolGet: hands out the head and leaves it in the queue
PoolGet_Peek(q) == [item |-> Head(q), rest |-> q]

\* RCONConnectionPool.get: blocks while the queue is empty (the callers' guard)
PoolGet(q) == QueueGet(q)

\* RCONConnectionPool.put
PoolPut(q, c) == QueuePut(q, c)

\* faulty variant of NumTasks: the last command is never submitted
NumTasks_DropLast(cmds) == IF Len(cmds) > 0 THEN Len(cmds) - 1 ELSE 0

\* executor.map(send_block_command, commands): one work item per command
NumTasks(cmds) == Len(cmds)

\* ThreadPoolExecutor._adjust_thread_count, called by every submit
AdjustThreadCount(n, maxw) == IF n < maxw THEN n + 1 ELSE n

\* faulty variant of ExecutorWorkers: one worker thread more than connections
ExecutorWorkers_OneMore(ps) == ps + 1

\* max_workers=pool_size as handed to the executor
ExecutorWorkers(ps) == ps

\* faulty variant of ExecutorRejects: an executor that accepts max_workers = 0
ExecutorRejects_Negative(maxw) == maxw < 0

\* ThreadPoolExecutor.__init__ raises ValueError for max_workers <= 0
ExecutorRejects(maxw) == maxw <= 0

DInit ==
    /\ commands \in {[i \in 1..n |-> i] : n \in 0..MaxCommands}
    /\ pool_size \in 0..MaxPool
    /\ pc = "construct"
    /\ outcome = "running"
    /\ idx = 0
    /\ pool = <<>>
    /\ conn_state = [c \in ConnIds |-> "absent"]
    /\ disconnects = [c \in ConnIds |-> 0]
    /\ max_workers = 0
    /\ num_threads = 0
    /\ work_queue = <<>>
    /\ fut = [t \in CmdIds |-> "none"]
    /\ exc = FALSE
    /\ wpc = [w \in WorkerIds |-> "idle"]
    /\ wtask = [w \in WorkerIds |-> 0]
    /\ conn = [w \in WorkerIds |-> 0]
    /\ wexc = [w \in WorkerIds |-> FALSE]
    /\ sent = [t \in CmdIds |-> 0]

\* RCONConnectionPool.__init__, one iteration of the loop: connect succeeded
Connect ==
    /\ pc = "construct"
    /\ idx < pool_size
    /\ idx' = idx + 1
    /\ conn_state' = [conn_state EXCEPT ![idx + 1] = "connected"]
    /\ pool' = PoolPut(pool, idx + 1)
    /\ UNCHANGED ivars
    /\ UNCHANGED <<commands, pool_size, pc, outcome, disconnects, max_workers,
                   num_threads, work_queue, fut, exc, wpc, wtask, conn, wexc,
                   sent>>

\* RCONConnectionPool.__init__: conn.connect() raises, the constructor and
\* send_commands end with the exception
ConnectFail ==
    /\ pc = "construct"
    /\ idx < pool_size
    /\ pc' = "done"
    /\ outcome' = "ConnectionError"
    /\ UNCHANGED ivars
    /\ UNCHANGED <<commands, pool_size, idx, pool, conn_state, disconnects,
                   max_workers, num_threads, work_queue, fut, exc, wpc, wtask,
                   conn, wexc, sent>>

\* the constructor's loop is over
Constructed ==
    /\ pc = "construct"
    /\ idx = pool_size
    /\ pc' = "executor"
    /\ idx' = 0
    /\ UNCHANGED ivars
    /\ UNCHANGED <<commands, pool_size, outcome, pool, conn_state, disconnects,
                   max_workers, num_threads, work_queue, fut, exc, wpc, wtask,
                   conn, wexc, sent>>

\* ThreadPoolExecutor(max_workers=pool_size)
CreateExecutor ==
    /\ pc = "executor"
    /\ IF ExecutorRejects(ExecutorWorkers(pool_size))
         THEN /\ pc' = "done"
              /\ outcome' = "ValueError"
              /\ UNCHANGED max_workers
         ELSE /\ pc' = "submit"
              /\ max_workers' = ExecutorWorkers(pool_size)
              /\ UNCHANGED outcome
    /\ UNCHANGED ivars
    /\ UNCHANGED <<commands, pool_size, idx, pool, conn_state, disconnects,
                   num_threads, work_queue, fut, exc, wpc, wtask, conn, wexc,
                   sent>>

\* executor.map: submit(send_block_command, cmd) for the next command
Submit ==
    /\ pc = "submit"
    /\ idx < NumTasks(commands)
    /\ idx' = idx + 1
    /\ fut' = [fut EXCEPT ![idx + 1] = "pending"]
    /\ work_queue' = QueuePut(work_queue, idx + 1)
    /\ num_threads' = AdjustThreadCount(num_threads, max_workers)
    /\ UNCHANGED ivars
    /\ UNCHANGED <<commands, pool_size, pc, outcome, pool, conn_state,
                   disconnects, max_workers, exc, wpc, wtask, conn, wexc, sent>>

\* executor.map has submitted every command; list() starts to draw results
Submitted ==
    /\ pc = "submit"
    /\ idx = NumTasks(commands)
    /\ pc' = "collect"
    /\ idx' = 0
    /\ UNCHANGED ivars
    /\ UNCHANGED <<commands, pool_size, outcome, pool, conn_state, disconnects,
                   max_workers, num_threads, work_queue, fut, exc, wpc, wtask,
                   conn, wexc, sent>>

\* result_iterator: the next future, in submission order, has a result
CollectResult ==
    /\ pc = "collect"
    /\ idx < NumTasks(commands)
    /\ fut[idx + 1] = "finished"
    /\ idx' = idx + 1
    /\ UNCHANGED ivars
    /\ UNCHANGED <<commands, pool_size, pc, outcome, pool, conn_state,
                   disconnects, max_workers, num_threads, work_queue, fut, exc,
                   wpc, wtask, conn, wexc, sent>>

\* result_iterator: the next future raised; its finally cancels every later
\* future that has not started, and the exception leaves the with block
CollectRaise ==
    /\ pc = "collect"
    /\ idx < NumTasks(commands)
    /\ fut[idx + 1] = "failed"
    /\ fut' = [t \in CmdIds |->
                 IF t > idx + 1 /\ fut[t] = "pending" THEN "cancelled" ELSE fut[t]]
    /\ exc' = TRUE
    /\ pc' = "shutdown"
    /\ UNCHANGED ivars
    /\ UNCHANGED <<commands, pool_size, outcome, idx, pool, conn_state,
                   disconnects, max_workers, num_threads, work_queue, wpc, wtask,
                   conn, wexc, sent>>

\* every result has been drawn: the with block is left normally
Collected ==
    /\ pc = "collect"
    /\ idx = NumTasks(commands)
    /\ pc' = "shutdown"
    /\ UNCHANGED ivars
    /\ UNCHANGED <<commands, pool_size, outcome, idx, pool, conn_state,
                   disconnects, max_workers, num_threads, work_queue, fut, exc,
                   wpc, wtask, conn, wexc, sent>>

\* ThreadPoolExecutor.__exit__: shutdown(wait=True) joins the worker threads,
\* which first drain the work queue; then either the exception propagates out
\* of send_commands or pool.close_all() is next
Shutdown ==
    /\ pc = "shutdown"
    /\ work_queue = <<>>
    /\ \A w \in WorkerIds : wpc[w] = "idle"
    /\ IF exc
         THEN /\ pc' = "done"
              /\ outcome' = "DispatchError"
         ELSE /\ pc' = "close_all"
              /\ UNCHANGED outcome
    /\ UNCHANGED ivars
    /\ UNCHANGED <<commands, pool_size, idx, pool, conn_state, disconnects,
                   max_workers, num_threads, work_queue, fut, exc, wpc, wtask,
                   conn, wexc, sent>>

\* RCONConnectionPool.close_all, one iteration: get a connection, disconnect
CloseOne ==
    /\ pc = "close_all"
    /\ pool # <<>>
    /\ LET g == PoolGet(pool) IN
         /\ pool' = g.rest
         /\ conn_state' = [conn_state EXCEPT ![g.item] = "disconnected"]
         /\ disconnects' = [disconnects EXCEPT ![g.item] = Min(@ + 1, MaxCount)]
    /\ UNCHANGED ivars
    /\ UNCHANGED <<commands, pool_size, pc, outcome, idx, max_workers,
                   num_threads, work_queue, fut, exc, wpc, wtask, conn, wexc,
                   sent>>

\* close_all finds the pool empty; send_commands returns results
Return ==
    /\ pc = "close_all"
    /\ pool = <<>>
    /\ pc' = "done"
    /\ outcome' = "returned"
    /\ UNCHANGED ivars
    /\ UNCHANGED <<commands, pool_size, idx, pool, conn_state, disconnects,
                   max_workers, num_threads, work_queue, fut, exc, wpc, wtask,
                   conn, wexc, sent>>

\* a worker thread takes the next work item; a cancelled one is dropped
\* (Future.set_running_or_notify_cancel), any other starts to run
WorkerTake(w) ==
    /\ w <= num_threads
    /\ wpc[w] = "idle"
    /\ work_queue # <<>>
    /\ LET g == QueueGet(work_queue) IN
         /\ work_queue' = g.rest
         /\ IF fut[g.item] = "cancelled"
              THEN UNCHANGED <<fut, wpc, wtask>>
              ELSE /\ fut' = [fut EXCEPT ![g.item] = "running"]
                   /\ wpc' = [wpc EXCEPT ![w] = "get"]
                   /\ wtask' = [wtask EXCEPT ![w] = g.item]
    /\ UNCHANGED ivars
    /\ UNCHANGED <<commands, pool_size, pc, outcome, idx, pool, conn_state,
                   disconnects, max_workers, num_threads, exc, conn, wexc, sent>>

\* send_block_command: conn = pool.get(), blocking while the pool is empty
WorkerGet(w) ==
    /\ wpc[w] = "get"
    /\ pool # <<>>
    /\ LET g == PoolGet(pool) IN
         /\ pool' = g.rest
         /\ conn' = [conn EXCEPT ![w] = g.item]
    /\ wpc' = [wpc EXCEPT ![w] = "command"]
    /\ UNCHANGED ivars
    /\ UNCHANGED <<commands, pool_size, pc, outcome, idx, conn_state,
                   disconnects, max_workers, num_threads, work_queue, fut, exc,
                   wtask, wexc, sent>>

\* send_block_command: conn.command(cmd) returns
WorkerCommand(w) ==
    /\ wpc[w] = "command"
    /\ sent' = [sent EXCEPT ![wtask[w]] = Min(@ + 1, MaxCount)]
    /\ wexc' = [wexc EXCEPT ![w] = FALSE]
    /\ wpc' = [wpc EXCEPT ![w] = "finally"]
    /\ UNCHANGED ivars
    /\ UNCHANGED <<commands, pool_size, pc, outcome, idx, pool, conn_state,
                   disconnects, max_workers, num_threads, work_queue, fut, exc,
                   wtask, conn>>

\* send_block_command: conn.command(cmd) raises
WorkerCommandRaise(w) ==
    /\ wpc[w] = "command"
    /\ sent' = [sent EXCEPT ![wtask[w]] = Min(@ + 1, MaxCount)]
    /\ wexc' = [wexc EXCEPT ![w] = TRUE]
    /\ wpc' = [wpc EXCEPT ![w] = "finally"]
    /\ UNCHANGED ivars
    /\ UNCHANGED <<commands, pool_size, pc, outcome, idx, pool, conn_state,
                   disconnects, max_workers, num_threads, work_queue, fut, exc,
                   wtask, conn>>

\* faulty variant of WorkerPut: pool.put(conn) after the send instead of in a
\* finally clause, so a send that raises drops its connection
WorkerPut_NoFinally(w) ==
    /\ wpc[w] = "finally"
    /\ pool' = IF wexc[w] THEN pool ELSE PoolPut(pool, conn[w])
    /\ conn' = [conn EXCEPT ![w] = 0]
    /\ wpc' = [wpc EXCEPT ![w] = "set"]
    /\ UNCHANGED ivars
    /\ UNCHANGED <<commands, pool_size, pc, outcome, idx, conn_state,
                   disconnects, max_workers, num_threads, work_queue, fut, exc,
                   wtask, wexc, sent>>

\* send_block_command: finally: pool.put(conn), on return and on raise alike
WorkerPut(w) ==
    /\ wpc[w] = "finally"
    /\ pool' = PoolPut(pool, conn[w])
    /\ conn' = [conn EXCEPT ![w] = 0]
    /\ wpc' = [wpc EXCEPT ![w] = "set"]
    /\ UNCHANGED ivars
    /\ UNCHANGED <<commands, pool_size, pc, outcome, idx, conn_state,
                   disconnects, max_workers, num_threads, work_queue, fut, exc,
                   wtask, wexc, sent>>

\* the work item stores the result or the exception in the Future
WorkerSetResult(w) ==
    /\ wpc[w] = "set"
    /\ fut' = [fut EXCEPT ![wtask[w]] = IF wexc[w] THEN "failed" ELSE "finished"]
    /\ wexc' = [wexc EXCEPT ![w] = FALSE]
    /\ wtask' = [wtask EXCEPT ![w] = 0]
    /\ wpc' = [wpc EXCEPT ![w] = "idle"]
    /\ UNCHANGED ivars
    /\ UNCHANGED <<commands, pool_size, pc, outcome, idx, pool, conn_state,
                   disconnects, max_workers, num_threads, work_queue, exc, conn,
                   sent>>

\* the image variables while only send_commands runs
IIdle ==
    /\ block_rgb_map = <<>>
    /\ player_info = [pos |-> <<0, 0, 0>>, rot |-> <<0, 0>>]
    /\ width = 0
    /\ height = 0
    /\ row = 0
    /\ col = 0
    /\ ipc = "off"
    /\ pixel = <<>>
    /\ pcol = 0
    /\ prow = 0
    /\ block_id = None
    /\ block_pos = <<0, 0, 0>>
    /\ emitted = <<>>

Init == DInit /\ IIdle

Next ==
    \/ Connect
    \/ ConnectFail
    \/ Constructed
    \/ CreateExecutor
    \/ Submit
    \/ Submitted
    \/ CollectResult
    \/ CollectRaise
    \/ Collected
    \/ Shutdown
    \/ CloseOne
    \/ Return
    \/ \E w \in WorkerIds : WorkerTake(w)
    \/ \E w \in WorkerIds : WorkerGet(w)
    \/ \E w \in WorkerIds : WorkerCommand(w)
    \/ \E w \in WorkerIds : WorkerCommandRaise(w)
    \/ \E w \in WorkerIds : WorkerPut(w)
    \/ \E w \in WorkerIds : WorkerSetResult(w)

Spec == Init /\ [][Next]_vars

\* some thread that can take a step eventually takes one: the operating
\* system runs a runnable thread, and a send returns or raises
FairSpec == Init /\ [][Next]_vars /\ WF_vars(Next)

\* ------------------------------------------------- claims, send_commands

\* connections some worker holds (got from the pool, not yet put back)
CheckedOut == {c \in ConnIds : \E w \in WorkerIds : conn[w] = c}

\* commands a worker has taken and whose Future is not yet resolved
InFlight == {t \in CmdIds : fut[t] = "running"}

Holders == {w \in WorkerIds : conn[w] # 0}

PoolSet == {pool[i] : i \in 1..Len(pool)}

Cmds == 1..Len(commands)

\* C1: with pool size P >= 1, at most P connections are checked out of the
\* pool and at most P commands are in flight, in every reachable state,
\* whatever the number of commands.
C1_AtMostPInFlight ==
    pool_size >= 1 =>
        /\ Cardinality(CheckedOut) <= pool_size
        /\ Cardinality(InFlight) <= pool_size

\* C1 witness: the pool is saturated (every one of P >= 2 connections is
\* checked out) while a further command waits.
C1_Witness ==
    /\ pool_size >= 2
    /\ Cardinality(CheckedOut) = pool_size
    /\ Cardinality(InFlight) = pool_size
    /\ \E t \in Cmds : fut[t] = "pending"

\* every command's Future is resolved with a result or an exception
AllCompleted == \A t \in Cmds : fut[t] \in {"finished", "failed"}

\* C2 (as claimed): once all commands have completed and send_commands has
\* ended, every pool connection is disconnected, exactly once, and none was
\* disconnected while a command was in flight.
C2_AllClosedOnceAtEnd ==
    /\ (pc = "done" /\ outcome \in {"returned", "DispatchError"} /\ AllCompleted)
          => \A c \in 1..pool_size :
                conn_state[c] = "disconnected" /\ disconnects[c] = 1
    /\ \A c \in ConnIds : disconnects[c] <= 1
    /\ (\E c \in ConnIds : disconnects[c] > 0) => InFlight = {}

\* C3 (as claimed): once dispatch has run and send_commands has ended, every
\* command of the list was invoked on the service exactly once (one call of
\* conn.command, so by one worker).
C3_EveryCommandSentOnce ==
    (pc = "done" /\ outcome \in {"returned", "DispatchError"})
        => \A t \in Cmds : sent[t] = 1

\* the state part of C3 (amended): at most one invocation per command, none
\* of a command outside the list, no connection kept between commands, and
\* exactly one invocation of each once send_commands has returned
C3_Safety ==
    /\ \A t \in CmdIds : sent[t] <= 1
    /\ \A t \in CmdIds : sent[t] = 1 => t \in Cmds
    /\ \A w \in WorkerIds : wpc[w] \in {"idle", "get"} => conn[w] = 0
    /\ outcome = "returned"
          => \A t \in Cmds : sent[t] = 1

\* C3 (amended): every command is invoked at most once (so by at most one
\* worker), a worker holds no connection when it takes its next command,
\* and when send_commands returns normally every command has been invoked
\* exactly once; send_commands always ends (a send that raises lets it end
\* with commands that were cancelled and never sent).
C3_SentOnceWhenReturned == [](C3_Safety) /\ <>(pc = "done")

\* C3 witness: a run of at least two commands on at least two workers has
\* returned normally.
C3_Witness ==
    /\ outcome = "returned"
    /\ Len(commands) >= 2
    /\ pool_size >= 2

\* C4: no two workers hold the same connection at the same time, and a
\* connection a worker holds is not in the pool.
C4_ExclusiveHold ==
    /\ \A w1, w2 \in WorkerIds :
          (w1 # w2 /\ conn[w1] # 0) => conn[w1] # conn[w2]
    /\ \A w \in WorkerIds : conn[w] # 0 => conn[w] \notin PoolSet

\* C4 witness: two workers execute commands at the same time.
C4_Witness ==
    \E w1, w2 \in WorkerIds :
        /\ w1 # w2
        /\ wpc[w1] = "command"
        /\ wpc[w2] = "command"

\* C5: with pool size 0 the call never starts to dispatch, sends no command,
\* and when it has ended it has ended with an error.
C5_PoolSizeZeroRejected ==
    pool_size = 0 =>
        /\ pc \in {"construct", "executor", "done"}
        /\ pc = "done" => outcome = "ValueError"
        /\ \A t \in CmdIds : sent[t] = 0 /\ fut[t] = "none"

\* C5 witness: a call with pool size 0 and commands to send has ended.
C5_Witness ==
    /\ pool_size = 0
    /\ Len(commands) > 0
    /\ pc = "done"

\* the pool exists and close_all has not started
PoolLive ==
    \/ pc \in {"executor", "submit", "collect", "shutdown"}
    \/ pc = "done" /\ outcome \in {"ValueError", "DispatchError"}

\* C10: from the end of construction until close_all starts, the idle
\* connections and the held ones are together the P connections of the pool,
\* and a worker whose send raised has put its connection back before the
\* failure reaches the Future.
C10_PoolKeepsSize ==
    PoolLive =>
        /\ Len(pool) + Cardinality(Holders) = pool_size
        /\ PoolSet \cup CheckedOut = 1..pool_size
        /\ \A w \in WorkerIds : wpc[w] = "set" => conn[w] = 0

\* C10 witness: a send raised, the worker has returned its connection and
\* the failure has not yet been stored.
C10_Witness ==
    \E w \in WorkerIds :
        /\ wpc[w] = "set"
        /\ wexc[w]
        /\ conn[w] = 0
        /\ Len(pool) + Cardinality(Holders) = pool_size

\* --------------------------------------------------- image_processing.py

\* bounds of the inputs
ImgWidth == 3
ImgHeight == 2
MaxPalette == 2

\* colours of palette entries and of pixels: a pixel equal to an entry, pixels
\* at equal distance from two entries, and grey levels on both sides of the
\* far threshold (grey 102 is depth 132 exactly)
PaletteColors == {<<100, 102, 102>>, <<104, 102, 102>>, <<102, 102, 102>>}
PixelColors == {<<102, 102, 102>>, <<103, 103, 103>>, <<0, 0, 0>>}
Alphas == {127, 128}
Pixels == {<<c[1], c[2], c[3], a>> : c \in PixelColors, a \in Alphas}
Positions == {<<0, 64, 0>>}
Rotations == {<<0, 0>>, <<90, 0>>, <<0, 90>>}
Palettes == UNION {[1..n -> PaletteColors] : n \in 0..MaxPalette}

\* defaults of process_image_depthmap_and_get_commands
min_distance == 60
max_distance == 180
pixel_scale == 1
\* eye_height = 1.62, in hundredths
EyeHeight100 == 162
\* alpha_val < 128
AlphaCutoff == 128
\* the coefficient 0.6 of far_threshold, in tenths
FarTenths == 6

\* base_distance = max_distance
base_distance == max_distance

\* lengths and offsets are rationals with this denominator: 1/Q is a common
\* unit of depth_map values (n/255), scale factors and half pixel offsets
Q == 2 * 255 * base_distance

Abs(x) == IF x < 0 THEN -x ELSE x

dot(u, v) == u[1] * v[1] + u[2] * v[2] + u[3] * v[3]

cross(u, v) == <<u[2] * v[3] - u[3] * v[2],
                 u[3] * v[1] - u[1] * v[3],
                 u[1] * v[2] - u[2] * v[1]>>

\* math.sqrt on the squared lengths that occur (integer vectors on an axis)
RECURSIVE SqrtFrom(_, _)
SqrtFrom(n, k) == IF (k + 1) * (k + 1) > n THEN k ELSE SqrtFrom(n, k + 1)

norm(u) == SqrtFrom(dot(u, u), 0)

normalize(u) ==
    LET n == norm(u) IN
    IF n = 0 THEN <<0, 0, 0>> ELSE <<u[1] \div n, u[2] \div n, u[3] \div n>>

\* math.sin and math.cos of math.radians(deg), deg a multiple of 90
Sin(deg) == CASE deg % 360 = 0 -> 0 [] deg % 360 = 90 -> 1
              [] deg % 360 = 180 -> 0 [] deg % 360 = 270 -> -1

Cos(deg) == CASE deg % 360 = 0 -> 1 [] deg % 360 = 90 -> 0
              [] deg % 360 = 180 -> -1 [] deg % 360 = 270 -> 0

\* look_vector = (dx, dy, dz) from yaw and pitch
LookVector(rot) ==
    <<-Sin(rot[1]) * Cos(rot[2]), -Sin(rot[2]), Cos(rot[1]) * Cos(rot[2])>>

\* approximate_up, replaced when the look vector is nearly vertical (> 0.99)
ApproximateUp(look) ==
    IF Abs(dot(look, <<0, 1, 0>>)) * 100 > 99 THEN <<1, 0, 0>> ELSE <<0, 1, 0>>

RightVector(look) == normalize(cross(ApproximateUp(look), look))

TrueUpVector(look) == normalize(cross(look, RightVector(look)))

\* eye_pos = (px, py + eye_height, pz), over Q
EyePos(pos) == <<pos[1] * Q, pos[2] * Q + EyeHeight100 * (Q \div 100), pos[3] * Q>>

\* squared distance of find_closest_block
DistSq(r, g, b, c) ==
    (r - c[1]) * (r - c[1]) + (g - c[2]) * (g - c[2]) + (b - c[3]) * (b - c[3])

\* the loop of find_closest_block from entry i on; best holds closest_block
\* and closest_distance_sq (inf: still float('inf'))
RECURSIVE ClosestScan(_, _, _, _, _, _)
ClosestScan(r, g, b, map, i, best) ==
    IF i > Len(map) THEN best.block
    ELSE LET dist_sq == DistSq(r, g, b, map[i]) IN
         ClosestScan(r, g, b, map, i + 1,
             IF best.inf \/ dist_sq < best.dist
               THEN [block |-> Key(i), dist |-> dist_sq, inf |-> FALSE]
               ELSE best)

\* faulty variant of find_closest_block: <= in place of <, the last minimal
\* entry wins
RECURSIVE ClosestScan_LastWins(_, _, _, _, _, _)
ClosestScan_LastWins(r, g, b, map, i, best) ==
    IF i > Len(map) THEN best.block
    ELSE LET dist_sq == DistSq(r, g, b, map[i]) IN
         ClosestScan_LastWins(r, g, b, map, i + 1,
             IF best.inf \/ dist_sq <= best.dist
               THEN [block |-> Key(i), dist |-> dist_sq, inf |-> FALSE]
               ELSE best)

find_closest_block_LastWins(r, g, b, map) ==
    ClosestScan_LastWins(r, g, b, map, 1, [block |-> None, dist |-> 0, inf |-> TRUE])

find_closest_block(r, g, b, map) ==
    ClosestScan(r, g, b, map, 1, [block |-> None, dist |-> 0, inf |-> TRUE])

\* im.convert("L") of one pixel: (19595 R + 38470 G + 7471 B + 0x8000) >> 16
Gray(r, g, b) == (r * 19595 + g * 38470 + b * 7471 + 32768) \div 65536

\* depth_map value, times 255: max_distance - (gray / 255)(max - min)
Depth255(gray) == 255 * max_distance - gray * (max_distance - min_distance)

\* faulty variant of FarThreshold10: the farthest 20% of the docstring
FarThreshold10_EightTenths == 10 * min_distance + 8 * (max_distance - min_distance)

\* far_threshold, times 10
FarThreshold10 == 10 * min_distance + FarTenths * (max_distance - min_distance)

\* distance >= far_threshold
IsFar(d255) == 10 * d255 >= 255 * FarThreshold10

\* faulty variant of NormOffsetRight: the sign flip left out
NormOffsetRight_NoFlip(c, w, ow, d255) == ((2 * c - w) * ow * d255) \div w

\* norm_offset_right over Q: -((col - center_x) / (width / 2)) *
\* (output_width / 2) * scale_factor, scale_factor = distance / base_distance
NormOffsetRight(c, w, ow, d255) == -(((2 * c - w) * ow * d255) \div w)

\* norm_offset_up over Q
NormOffsetUp(r, h, oh, d255) == ((h - 2 * r) * oh * d255) \div h

\* block_pos over Q: eye + look * distance + right * off_r + up * off_u
BlockPos(eye, look, right, up, d255, off_r, off_u) ==
    [i \in 1..3 |->
        eye[i] + look[i] * d255 * 2 * base_distance + right[i] * off_r + up[i] * off_u]

\* delta_r and delta_u over Q: pixel_scale * scale_factor * vector
Delta(v, d255) == [i \in 1..3 |-> pixel_scale * d255 * 2 * v[i]]

Plus(u, v) == [i \in 1..3 |-> u[i] + v[i]]

\* int(round(x)) of x = n / Q: Python rounds halves to the even integer
Round(n) ==
    LET f == n \div Q
        r == n % Q
    IN  IF 2 * r < Q THEN f
        ELSE IF 2 * r > Q THEN f + 1
        ELSE IF f % 2 = 0 THEN f ELSE f + 1

\* f"setblock {bx} {by} {bz} {block_id}"
Command(pos, b) == <<"setblock", Round(pos[1]), Round(pos[2]), Round(pos[3]), b>>

\* the positions of lines 254-259 or the single position of line 267
Positions4(pos, right, up, d255) ==
    <<pos,
      Plus(pos, Delta(right, d255)),
      Plus(pos, Delta(up, d255)),
      Plus(Plus(pos, Delta(right, d255)), Delta(up, d255))>>

\* what one iteration of the pixel loop computes for an opaque pixel
PixelResult(px, c, r) ==
    LET found == find_closest_block(px[1], px[2], px[3], block_rgb_map)
        b     == IF found = None THEN Stone ELSE found
        d255  == Depth255(Gray(px[1], px[2], px[3]))
        look  == LookVector(player_info.rot)
        right == RightVector(look)
        up    == TrueUpVector(look)
        pos   == BlockPos(EyePos(player_info.pos), look, right, up, d255,
                          NormOffsetRight(c, width, width, d255),
                          NormOffsetUp(r, height, height, d255))
        ps    == IF IsFar(d255) THEN Positions4(pos, right, up, d255) ELSE <<pos>>
    IN  [block_id |-> b,
         block_pos |-> pos,
         cmds |-> [k \in 1..Len(ps) |-> Command(ps[k], b)]]

\* the send_commands variables while only the image is processed
DIdle ==
    /\ commands = <<>>
    /\ pool_size = 0
    /\ pc = "off"
    /\ outcome = "running"
    /\ idx = 0
    /\ pool = <<>>
    /\ conn_state = [c \in ConnIds |-> "absent"]
    /\ disconnects = [c \in ConnIds |-> 0]
    /\ max_workers = 0
    /\ num_threads = 0
    /\ work_queue = <<>>
    /\ fut = [t \in CmdIds |-> "none"]
    /\ exc = FALSE
    /\ wpc = [w \in WorkerIds |-> "idle"]
    /\ wtask = [w \in WorkerIds |-> 0]
    /\ conn = [w \in WorkerIds |-> 0]
    /\ wexc = [w \in WorkerIds |-> FALSE]
    /\ sent = [t \in CmdIds |-> 0]

\* the state when the pixel loop of line 218 starts
IInit ==
    /\ block_rgb_map \in Palettes
    /\ player_info \in [pos : Positions, rot : Rotations]
    /\ width \in 1..ImgWidth
    /\ height \in 1..ImgHeight
    /\ row = 0
    /\ col = 0
    /\ ipc = "loop"
    /\ pixel = <<>>
    /\ pcol = 0
    /\ prow = 0
    /\ block_id = None
    /\ block_pos = <<0, 0, 0>>
    /\ emitted = <<>>

\* for row in range(height): for col in range(width): the next position
Advance ==
    /\ pcol' = col
    /\ prow' = row
    /\ col' = IF col + 1 < width THEN col + 1 ELSE 0
    /\ row' = IF col + 1 < width THEN row ELSE row + 1
    /\ ipc' = IF col + 1 < width \/ row + 1 < height THEN "loop" ELSE "return"

\* a pixel with alpha_val < 128: continue
SkipPixel ==
    /\ ipc = "loop"
    /\ \E px \in Pixels :
         /\ px[4] < AlphaCutoff
         /\ pixel' = px
    /\ block_id' = None
    /\ block_pos' = <<0, 0, 0>>
    /\ emitted' = <<>>
    /\ Advance
    /\ UNCHANGED dvars
    /\ UNCHANGED <<block_rgb_map, player_info, width, height>>

\* any other pixel: quantize, project, append one command or four
PlacePixel ==
    /\ ipc = "loop"
    /\ \E px \in Pixels :
         /\ ~(px[4] < AlphaCutoff)
         /\ pixel' = px
         /\ LET res == PixelResult(px, col, row) IN
              /\ block_id' = res.block_id
              /\ block_pos' = res.block_pos
              /\ emitted' = res.cmds
    /\ Advance
    /\ UNCHANGED dvars
    /\ UNCHANGED <<block_rgb_map, player_info, width, height>>

\* the loops are over: return commands
ReturnCommands ==
    /\ ipc = "return"
    /\ ipc' = "done"
    /\ UNCHANGED dvars
    /\ UNCHANGED <<block_rgb_map, player_info, width, height, row, col, pixel,
                   pcol, prow, block_id, block_pos, emitted>>

InitImg == DIdle /\ IInit

NextImg ==
    \/ SkipPixel
    \/ PlacePixel
    \/ ReturnCommands

SpecImg == InitImg /\ [][NextImg]_vars

\* ---------------------------------------------- claims, image_processing

\* the pixel processed last passed the alpha test and was placed
Placed == pixel # <<>> /\ ~(pixel[4] < 128)

\* its distance to the i-th palette entry
PixelDist(i) == DistSq(pixel[1], pixel[2], pixel[3], block_rgb_map[i])

\* C6 (as claimed): with an empty palette, quantizing a pixel ends the run in
\* a configuration error and no command carries a fallback block id.
C6_EmptyPaletteFails ==
    (block_rgb_map = <<>> /\ Placed) =>
        /\ ipc = "ConfigurationError"
        /\ block_id # Stone
        /\ \A k \in 1..Len(emitted) : emitted[k][5] # Stone

\* the component of the placed position along right, relative to the eye
\* (over Q)
RightComponent ==
    LET look == LookVector(player_info.rot)
        eye  == EyePos(player_info.pos)
    IN  dot([i \in 1..3 |-> block_pos[i] - eye[i]], RightVector(look))

\* look = (0, 0, 1) and right = (1, 0, 0)
MirrorFrame ==
    /\ LookVector(player_info.rot) = <<0, 0, 1>>
    /\ RightVector(LookVector(player_info.rot)) = <<1, 0, 0>>

\* C7 (as claimed): with look = (0,0,1) and right = (1,0,0), a pixel left of
\* the image centre is placed at a negative component along right relative to
\* the eye, a pixel right of the centre at a positive one.
C7_LeftIsNegative ==
    (Placed /\ MirrorFrame) =>
        /\ 2 * pcol < width => RightComponent < 0
        /\ 2 * pcol > width => RightComponent > 0

\* C7 (amended): with look = (0,0,1) and right = (1,0,0), a placed pixel left
\* of the image centre (col < width/2) has a positive component along right
\* relative to the eye, and one right of the centre (col > width/2) a
\* negative one, at every depth.
C7_LeftIsPositive ==
    (Placed /\ MirrorFrame) =>
        /\ 2 * pcol < width => RightComponent > 0
        /\ 2 * pcol > width => RightComponent < 0

\* C7 witness: a pixel left of the centre was placed in that frame, in an
\* image that also has a column right of the centre.
C7_Witness ==
    /\ Placed
    /\ MirrorFrame
    /\ 2 * pcol < width
    /\ width >= 3
    /\ RightComponent > 0

\* C8: for a non-empty palette the block chosen for a pixel is an entry at
\* minimal squared distance, and the first such entry in palette order.
C8_FirstMinimalEntry ==
    (Placed /\ block_rgb_map # <<>>) =>
        \E i \in 1..Len(block_rgb_map) :
            /\ block_id = Key(i)
            /\ \A j \in 1..Len(block_rgb_map) :
                  /\ PixelDist(j) >= PixelDist(i)
                  /\ j < i => PixelDist(j) > PixelDist(i)

\* C8 witness: two entries of different colours are at the same, minimal
\* distance from the pixel, and the earlier one was chosen.
C8_Witness ==
    /\ Placed
    /\ \E i, j \in 1..Len(block_rgb_map) :
          /\ i < j
          /\ block_rgb_map[i] # block_rgb_map[j]
          /\ PixelDist(i) = PixelDist(j)
          /\ \A k \in 1..Len(block_rgb_map) : PixelDist(k) >= PixelDist(i)
          /\ block_id = Key(i)

\* the depth of the pixel processed last is at least
\* min_distance + 0.6 (max_distance - min_distance), 132 for 60 and 180
PixelIsFar ==
    10 * Depth255(Gray(pixel[1], pixel[2], pixel[3]))
        >= 255 * (10 * min_distance + 6 * (max_distance - min_distance))

====
